---- MODULE Spec2Model ----
(***************************************************************************)
(* A model of wasp/wasp.py: the PinHandler edge detector and the Manager   *)
(* (application switching, ring navigation, event subscription, the        *)
(* awake/asleep cycle and the poll step _tick).                            *)
(*                                                                         *)
(* The Manager is single threaded: every public operation runs to          *)
(* completion, so each operation is one action.  The methods are operators *)
(* over a record m holding the Manager's fields, the state of the hardware *)
(* collaborators and the observers (the call trace of the operation and a  *)
(* few history fields).  An exception that escapes an operation leaves     *)
(* status = "raised", a loop that never ends leaves status = "hung"; both  *)
(* stop the run loop.                                                      *)
(***************************************************************************)
EXTENDS Integers, Sequences, FiniteSets

VARIABLES
    app,             \* Manager.app: the foregrounded application, or NoApp
    applications,    \* Manager.applications: the navigation ring
    brightness,      \* Manager._brightness
    charging,        \* Manager.charging
    button_value,    \* Manager._button._value (PinHandler)
    sleep_at,        \* Manager.sleep_at
    event_mask,      \* Manager.event_mask
    tick_period_ms,  \* Manager.tick_period_ms
    tick_expiry,     \* Manager.tick_expiry
    rtc_ms,          \* watch.rtc: the uptime latched by rtc.update(), in ms
    display_on,      \* watch.display: powered on or off
    backlight,       \* watch.backlight: the level last set
    status,          \* "ok", "raised" (an exception escaped) or "hung"
    pc,              \* where Manager.run() is: "run", "_tick" or "deepsleep"
    log,             \* the calls made by the most recent Manager operation
    sub_mask,        \* observer: OR of the masks the foregrounded app requested
    sub_tick,        \* observer: the period the foregrounded app last requested
    boots,           \* observer: how many times the power-on sequence ran
    boot_at,         \* observer: uptime (s) at the power-on sequence
    last_input,      \* observer: uptime (s) at the last processed button/touch input, or None
    last_reset,      \* observer: uptime (s) at the last processed input or wake(), or None
    nav_start,       \* observer: the app a run of navigate() calls started from
    nav_seq          \* observer: the directions of that run of navigate() calls

vars == <<app, applications, brightness, charging, button_value, sleep_at,
          event_mask, tick_period_ms, tick_expiry,
          rtc_ms, display_on, backlight, status, pc, log, sub_mask, sub_tick,
          boots, boot_at, last_input, last_reset, nav_start, nav_seq>>

------------------------------------------------------------------------------
(* Bounds of the model *)

\* the clock is not advanced beyond this uptime (seconds)
MaxUptime == 32
\* the applications that exist: 1..NumApps
NumApps == 5
\* register() is not called once the ring holds this many entries
MaxRing == 4
\* the uptime (s) up to which the finely stepped clock is followed
MaxTickUptime == 4
\* the number of pin changes and polls that are followed
MaxPinTrace == 7

------------------------------------------------------------------------------
(* Constants of the program *)

\* Python's None, and an attribute that __init__ never assigned
None == -1
Unset == -2

EventType_DOWN == 1
EventType_UP == 2
EventType_LEFT == 3
EventType_RIGHT == 4
EventType_TOUCH == 5
EventType_HOME == 256

EventMask_TOUCH == 1
EventMask_SWIPE_LEFTRIGHT == 2
EventMask_SWIPE_UPDOWN == 4
EventMask_BUTTON == 8

\* self.app = None
NoApp == 0
\* the applications Manager.__init__ creates
ClockApp == 1
FlashlightApp == 2
TestApp == 3
LauncherApp == 4

blank_after == 15
BootGrace == 90
InitialBrightness == 2

Apps == 1..NumApps

B(b) == IF b THEN 1 ELSE 0

\* Python truthiness of an int-or-None attribute
Truthy(x) == x # None /\ x # 0

\* bitwise operators on the four bits of an event mask
Bit(x, b) == (x \div b) % 2
BitAndBit(x, y, b) == IF Bit(x, b) = 1 /\ Bit(y, b) = 1 THEN b ELSE 0
BitOrBit(x, y, b) == IF Bit(x, b) = 1 \/ Bit(y, b) = 1 THEN b ELSE 0
BitAnd(x, y) == BitAndBit(x, y, 1) + BitAndBit(x, y, 2) + BitAndBit(x, y, 4) + BitAndBit(x, y, 8)
BitOr(x, y) == BitOrBit(x, y, 1) + BitOrBit(x, y, 2) + BitOrBit(x, y, 4) + BitOrBit(x, y, 8)

------------------------------------------------------------------------------
(* The applications (the apps package, outside this file): the capability *)
(* interface the Manager calls.  Which optional capabilities an app has    *)
(* is fixed per app; what its hooks do is chosen per call.                 *)

\* apps that implement background()
HasBackground(a) == a \in {FlashlightApp, TestApp} \/ a > LauncherApp
\* apps that implement sleep(); the default app always can sleep
HasSleep(a) == a \in {ClockApp, TestApp}
\* apps whose sleep() always returns True
AlwaysSleeps(a) == a = ClockApp
\* apps that implement wake()
HasWake(a) == a = ClockApp

\* what an app's foreground() asks of the Manager: the masks it passes to
\* request_event, in order, and the period it passes to request_tick (or None)
Fg0 == [masks |-> <<>>, tick |-> None]
FgChoices ==
    { Fg0,
      [masks |-> <<EventMask_TOUCH, EventMask_SWIPE_UPDOWN>>, tick |-> None],
      [masks |-> <<EventMask_SWIPE_LEFTRIGHT + EventMask_BUTTON>>, tick |-> 1000],
      [masks |-> <<>>, tick |-> 0] }

\* what the collaborators answer during one Manager operation:
\* pin: the level watch.button reads, bat: what watch.battery.charging() reads,
\* touch: the event kind watch.touch.get_event() hands over (or None),
\* fg: what foreground() requests, pr: what press() returns,
\* sw: what swipe() returns, sr: what sleep() returns
Env(pin, bat, touch, fg, pr, sw, sr) ==
    [pin |-> pin, bat |-> bat, touch |-> touch, fg |-> fg, pr |-> pr, sw |-> sw, sr |-> sr]

------------------------------------------------------------------------------
(* The record of the state an operation works on *)

M == [app |-> app, applications |-> applications, brightness |-> brightness,
      charging |-> charging, button_value |-> button_value,
      sleep_at |-> sleep_at, event_mask |-> event_mask,
      tick_period_ms |-> tick_period_ms, tick_expiry |-> tick_expiry,
      rtc_ms |-> rtc_ms, display_on |-> display_on, backlight |-> backlight,
      status |-> status, log |-> <<>>, sub_mask |-> sub_mask,
      sub_tick |-> sub_tick, boots |-> boots, boot_at |-> boot_at,
      last_input |-> last_input, last_reset |-> last_reset]

Commit(r) ==
    /\ app' = r.app
    /\ applications' = r.applications
    /\ brightness' = r.brightness
    /\ charging' = r.charging
    /\ button_value' = r.button_value
    /\ sleep_at' = r.sleep_at
    /\ event_mask' = r.event_mask
    /\ tick_period_ms' = r.tick_period_ms
    /\ tick_expiry' = r.tick_expiry
    /\ rtc_ms' = r.rtc_ms
    /\ display_on' = r.display_on
    /\ backlight' = r.backlight
    /\ status' = r.status
    /\ log' = r.log
    /\ sub_mask' = r.sub_mask
    /\ sub_tick' = r.sub_tick
    /\ boots' = r.boots
    /\ boot_at' = r.boot_at
    /\ last_input' = r.last_input
    /\ last_reset' = r.last_reset

Ok(m) == m.status = "ok"
Raise(m) == [m EXCEPT !.status = "raised"]
Hang(m) == [m EXCEPT !.status = "hung"]

\* a call is recorded as <<name, app or 0, argument, second argument>>
Call(m, name, a, x, y) == [m EXCEPT !.log = Append(@, <<name, a, x, y>>)]

\* watch.rtc.uptime, watch.rtc.get_uptime_ms()
uptime(m) == m.rtc_ms \div 1000
get_uptime_ms(m) == m.rtc_ms

------------------------------------------------------------------------------
(* The hardware collaborators of the watch module *)

display_poweron(m) == Call([m EXCEPT !.display_on = TRUE], "display.poweron", 0, 0, 0)
display_poweroff(m) == Call([m EXCEPT !.display_on = FALSE], "display.poweroff", 0, 0, 0)
display_mute(m, b) == Call(m, "display.mute", 0, B(b), 0)
drawable_reset(m) == Call(m, "drawable.reset", 0, 0, 0)
backlight_set(m, level) == Call([m EXCEPT !.backlight = level], "backlight.set", 0, level, 0)
vibrator_pulse(m) == Call(m, "vibrator.pulse", 0, 0, 0)
\* watch.touch.get_event() hands over the pending event, if any
touch_get_event(m, e) == Call(m, "touch.get_event", 0, e.touch, 0)
\* watch.battery.charging()
battery_charging(m, e) == Call(m, "battery.charging", 0, B(e.bat), 0)
\* watch.rtc.update() latches the hardware clock, d ms after the last latch
\* rtc.update() returns whether the time advanced: recorded as
\* <<"rtc.update", 0, what it returns, 0>>
rtc_update(m, d) == Call([m EXCEPT !.rtc_ms = @ + d], "rtc.update", 0, B(d > 0), 0)

------------------------------------------------------------------------------
(* PinHandler *)

\* what get_event() returns when the pin reads new_value:
\* the new value (1/0) on a change, else None
get_event_value(m, new_value) ==
    IF m.button_value = new_value THEN None ELSE B(new_value)

\* a variant that does not remember the value it read
get_event_forgetful(m, new_value) ==
    Call(m, "button.get_event", 0, get_event_value(m, new_value), B(new_value))

\* recorded as <<"button.get_event", 0, what it returns, what the pin read>>
get_event(m, new_value) ==
    IF m.button_value = new_value
    THEN Call(m, "button.get_event", 0, None, B(new_value))
    ELSE Call([m EXCEPT !.button_value = new_value],
              "button.get_event", 0, B(new_value), B(new_value))

------------------------------------------------------------------------------
(* Manager: subscriptions *)

request_event(m, mask) == [m EXCEPT !.event_mask = BitOr(@, mask)]

request_tick(m, period_ms) ==
    [m EXCEPT !.tick_period_ms = period_ms,
              !.tick_expiry = get_uptime_ms(m) + period_ms]

\* recorded as <<"keep_awake", app, the sleep_at it sets, 0>>
keep_awake(m) ==
    Call([m EXCEPT !.sleep_at = uptime(m) + blank_after],
         "keep_awake", m.app, uptime(m) + blank_after, 0)

\* the brightness setter
set_brightness(m, value) ==
    backlight_set(Call([m EXCEPT !.brightness = value], "brightness", 0, value, 0), value)

------------------------------------------------------------------------------
(* What the application hooks do *)

\* the foregrounded app calls request_event(mask)
app_request_event(m, mask) ==
    request_event(Call([m EXCEPT !.sub_mask = BitOr(@, mask)],
                       "request_event", m.app, mask, 0), mask)

\* the foregrounded app calls request_tick(period_ms)
app_request_tick(m, period_ms) ==
    request_tick(Call([m EXCEPT !.sub_tick = period_ms],
                      "request_tick", m.app, period_ms, 0), period_ms)

RECURSIVE app_request_events(_, _)
app_request_events(m, masks) ==
    IF masks = <<>> THEN m
    ELSE app_request_events(app_request_event(m, Head(masks)), Tail(masks))

app_request_ticks(m, fg) ==
    IF fg.tick = None THEN m ELSE app_request_tick(m, fg.tick)

\* app.foreground(): recorded with the event_mask and tick_expiry it finds
app_foreground(m, fg) ==
    app_request_ticks(
        app_request_events(
            Call([m EXCEPT !.sub_mask = 0, !.sub_tick = None],
                 "app.foreground", m.app, m.event_mask, m.tick_expiry),
            fg.masks),
        fg)

app_background(m) == Call(m, "app.background", m.app, 0, 0)
app_sleep_returns(m, e) == IF AlwaysSleeps(m.app) THEN TRUE ELSE e.sr
app_sleep(m, e) == Call(m, "app.sleep", m.app, B(app_sleep_returns(m, e)), 0)
app_wake(m) == Call(m, "app.wake", m.app, 0, 0)
app_press(m, state, e) == Call(m, "app.press", m.app, state, B(e.pr))
app_swipe(m, kind, e) == Call(m, "app.swipe", m.app, kind, B(e.sw))
app_touch(m, kind) == Call(m, "app.touch", m.app, kind, 0)
\* app.tick(ticks): recorded with the tick_expiry it is called under
app_tick(m, ticks) == Call(m, "app.tick", m.app, ticks, m.tick_expiry)

------------------------------------------------------------------------------
(* Manager.switch *)

\* "System start up...": the timer is armed
switch_arm(p) ==
    [p EXCEPT !.sleep_at = uptime(p) + BootGrace,
              !.boots = @ + 1, !.boot_at = uptime(p)]

switch_startup(m) ==
    switch_arm(backlight_set(display_mute(display_poweron(m), TRUE), m.brightness))

\* a variant that starts the system on every switch
switch_leave_restart(m) ==
    IF m.app # NoApp /\ HasBackground(m.app)
    THEN switch_startup(app_background(m))
    ELSE switch_startup(m)

\* the old application is told, or the system is started
switch_leave(m) ==
    IF m.app # NoApp
    THEN IF HasBackground(m.app) THEN app_background(m) ELSE m
    ELSE switch_startup(m)

\* a variant that clears the tick subscription only
switch_clear_tick_only(m) ==
    [m EXCEPT !.event_mask = IF @ = Unset THEN 0 ELSE @,
              !.tick_period_ms = 0, !.tick_expiry = None]

\* "Clear out any configuration from the old application"
switch_clear(m) ==
    [m EXCEPT !.event_mask = 0, !.tick_period_ms = 0, !.tick_expiry = None]

\* a variant that draws the new application before the display is muted
switch_enter_unmuted(m, target, e) ==
    display_mute(
        drawable_reset(display_mute(app_foreground([m EXCEPT !.app = target], e.fg), TRUE)),
        FALSE)

\* the new application takes the display
switch_enter(m, target, e) ==
    display_mute(
        app_foreground(
            drawable_reset(display_mute([m EXCEPT !.app = target], TRUE)),
            e.fg),
        FALSE)

\* recorded as <<"switch", target, the app and the event_mask it finds>> and
\* <<"switch.return", target, the app it leaves foregrounded, 0>>
switch_return(m, target) == Call(m, "switch.return", target, m.app, 0)

\* a variant that clears the old configuration after the new application
\* has been foregrounded
switch_clear_late(m, target, e) ==
    IF ~Ok(m) THEN m
    ELSE switch_return(
             switch_clear(
                 switch_enter(switch_leave(Call(m, "switch", target, m.app, m.event_mask)),
                              target, e)),
             target)

switch(m, target, e) ==
    IF ~Ok(m) THEN m
    ELSE switch_return(
             switch_enter(
                 switch_clear(switch_leave(Call(m, "switch", target, m.app, m.event_mask))),
                 target, e),
             target)

------------------------------------------------------------------------------
(* Manager.sleep, Manager.wake *)

\* x in app_list, app_list.index(x) (0-based), app_list[i] (0-based)
InList(x, app_list) == \E k \in 1..Len(app_list) : app_list[k] = x
IndexOf(app_list, x) ==
    (CHOOSE k \in 1..Len(app_list) :
        app_list[k] = x /\ \A j \in 1..(k - 1) : app_list[j] # x) - 1
At(app_list, i) == app_list[i + 1]

\* self.app.sleep() after the switch to the default application
sleep_default(w, e) == IF HasSleep(w.app) THEN app_sleep(w, e) ELSE Raise(w)

sleep_fallback(m, e) == sleep_default(switch(m, At(m.applications, 0), e), e)

\* a variant without the fallback to the default application
sleep_app_no_fallback(m, e) == IF HasSleep(m.app) THEN app_sleep(m, e) ELSE m

\* if 'sleep' not in dir(self.app) or not self.app.sleep(): ...
sleep_app(m, e) ==
    IF ~HasSleep(m.app) THEN sleep_fallback(m, e)
    ELSE IF ~app_sleep_returns(m, e) THEN sleep_fallback(app_sleep(m, e), e)
    ELSE app_sleep(m, e)

sleep_done(m, e) == [m EXCEPT !.charging = e.bat, !.sleep_at = None]

sleep_off(m, e) ==
    IF ~Ok(m) THEN m
    ELSE sleep_done(battery_charging(display_poweroff(m), e), e)

sleep(m, e) ==
    IF ~Ok(m) THEN m
    ELSE sleep_off(sleep_app(backlight_set(Call(m, "sleep", m.app, 0, 0), 0), e), e)

wake_app(m, e) ==
    IF ~HasWake(m.app) THEN Raise(m)
    ELSE keep_awake(touch_get_event(backlight_set(app_wake(m), m.brightness), e))

wake(m, e) ==
    IF ~Ok(m) THEN m
    ELSE wake_app(display_poweron(Call([m EXCEPT !.last_reset = uptime(m)],
                                       "wake", m.app, B(m.display_on), m.sleep_at)),
                             e)

------------------------------------------------------------------------------
(* Manager.navigate *)

\* a variant that wraps one application early
left_index_short(m) ==
    IF InList(m.app, m.applications)
    THEN IF IndexOf(m.applications, m.app) + 1 >= Len(m.applications) - 1
         THEN 0
         ELSE IndexOf(m.applications, m.app) + 1
    ELSE 0

\* the ring index navigate(LEFT) switches to
left_index(m) ==
    IF InList(m.app, m.applications)
    THEN IF IndexOf(m.applications, m.app) + 1 >= Len(m.applications)
         THEN 0
         ELSE IndexOf(m.applications, m.app) + 1
    ELSE 0

\* a variant that does not wrap to the end of the ring
right_index_nowrap(m) ==
    IF InList(m.app, m.applications)
    THEN IF IndexOf(m.applications, m.app) - 1 < 0
         THEN 0
         ELSE IndexOf(m.applications, m.app) - 1
    ELSE 0

\* the ring index navigate(RIGHT) switches to
right_index(m) ==
    IF InList(m.app, m.applications)
    THEN IF IndexOf(m.applications, m.app) - 1 < 0
         THEN Len(m.applications) - 1
         ELSE IndexOf(m.applications, m.app) - 1
    ELSE 0

navigate_down(m, e) ==
    IF m.app # At(m.applications, 0)
    THEN switch(m, At(m.applications, 0), e)
    ELSE vibrator_pulse(m)

\* a variant that never sleeps
navigate_home_switch(m, e) == switch(m, At(m.applications, 0), e)

navigate_home(m, e) ==
    IF m.app # At(m.applications, 0)
    THEN switch(m, At(m.applications, 0), e)
    ELSE sleep(m, e)

navigate_to(m, direction, e) ==
    IF direction = EventType_LEFT
        THEN switch(m, At(m.applications, left_index(m)), e)
    ELSE IF direction = EventType_RIGHT
        THEN switch(m, At(m.applications, right_index(m)), e)
    ELSE IF direction = EventType_UP
        THEN switch(m, LauncherApp, e)
    ELSE IF direction = EventType_DOWN
        THEN navigate_down(m, e)
    ELSE IF direction = EventType_HOME
        THEN navigate_home(m, e)
    ELSE m

navigate(m, direction, e) ==
    IF ~Ok(m) THEN m
    ELSE navigate_to(Call(m, "navigate", m.app, direction, 0), direction, e)

------------------------------------------------------------------------------
(* Manager._handle_button, Manager._handle_touch *)

\* a variant that navigates whatever press() returned
button_pressed_anyway(m, state, e) ==
    IF state = 1 THEN navigate(m, EventType_HOME, e) ELSE m

\* after press(): "If app reported None or False then we are done"
button_pressed(m, state, e) ==
    IF ~e.pr THEN m
    ELSE IF state = 1 THEN navigate(m, EventType_HOME, e) ELSE m

button_dispatch(m, state, e) ==
    IF BitAnd(m.event_mask, EventMask_BUTTON) # 0
    THEN button_pressed(app_press(m, state, e), state, e)
    ELSE IF state = 1 THEN navigate(m, EventType_HOME, e) ELSE m

\* state: 1 pressed, 0 released
_handle_button(m, state, e) ==
    IF ~Ok(m) THEN m
    ELSE button_dispatch(
             keep_awake(Call([m EXCEPT !.last_input = uptime(m), !.last_reset = uptime(m)],
                             "_handle_button", m.app, state, m.event_mask)),
             state, e)

\* a variant that navigates whatever swipe() returned
touch_swiped_anyway(m, kind, e) == navigate(m, kind, e)

touch_swiped(m, kind, e) == IF e.sw THEN navigate(m, kind, e) ELSE m

touch_dispatch(m, kind, e) ==
    IF kind < 5
    THEN IF \/ (BitAnd(m.event_mask, EventMask_SWIPE_UPDOWN) # 0 /\ (kind = 1 \/ kind = 2))
            \/ (BitAnd(m.event_mask, EventMask_SWIPE_LEFTRIGHT) # 0 /\ ~(kind = 1 \/ kind = 2))
         THEN touch_swiped(app_swipe(m, kind, e), kind, e)
         ELSE navigate(m, kind, e)
    ELSE IF kind = 5 /\ BitAnd(m.event_mask, EventMask_TOUCH) # 0
         THEN app_touch(m, kind)
         ELSE m

\* kind: event[0]
_handle_touch(m, kind, e) ==
    IF ~Ok(m) THEN m
    ELSE touch_dispatch(
             keep_awake(Call([m EXCEPT !.last_input = uptime(m), !.last_reset = uptime(m)],
                             "_handle_touch", m.app, kind, m.event_mask)),
             kind, e)

------------------------------------------------------------------------------
(* Manager._tick, Manager.run *)

\* the catch-up loop: <<tick_expiry, ticks>> once tick_expiry > now
RECURSIVE tick_loop(_, _, _, _)
tick_loop(expiry, period, now, ticks) ==
    IF expiry <= now
    THEN tick_loop(expiry + period, period, now, ticks + 1)
    ELSE <<expiry, ticks>>

tick_caught_up(m, r) == app_tick([m EXCEPT !.tick_expiry = r[1]], r[2])

\* the tick delivery of an awake poll step; updated: what rtc.update() returned.
\* With a period of 0 (or less) the loop never ends.
tick_deliver(m, updated) ==
    IF updated /\ Truthy(m.tick_expiry)
    THEN IF m.tick_expiry <= get_uptime_ms(m)
         THEN IF m.tick_period_ms <= 0
              THEN Hang(m)
              ELSE tick_caught_up(m, tick_loop(m.tick_expiry, m.tick_period_ms,
                                               get_uptime_ms(m), 0))
         ELSE m
    ELSE m

tick_button(m, e) ==
    IF ~Ok(m) THEN m
    ELSE IF get_event_value(m, e.pin) # None
         THEN _handle_button(get_event(m, e.pin), get_event_value(m, e.pin), e)
         ELSE get_event(m, e.pin)

tick_touch(m, e) ==
    IF ~Ok(m) THEN m
    ELSE IF e.touch # None
         THEN _handle_touch(touch_get_event(m, e), e.touch, e)
         ELSE touch_get_event(m, e)

\* the inactivity check, recorded as <<"timeout.check", app, uptime, sleep_at>>
timeout_check(m) == Call(m, "timeout.check", m.app, uptime(m), m.sleep_at)

\* a variant that lets blank_after more seconds pass
tick_timeout_late(m, e) ==
    IF ~Ok(m) THEN m
    ELSE IF Truthy(m.sleep_at) /\ uptime(m) > m.sleep_at + blank_after
         THEN sleep(timeout_check(m), e)
         ELSE timeout_check(m)

\* if self.sleep_at and watch.rtc.uptime > self.sleep_at: self.sleep()
tick_timeout(m, e) ==
    IF ~Ok(m) THEN m
    ELSE IF Truthy(m.sleep_at) /\ uptime(m) > m.sleep_at
         THEN sleep(timeout_check(m), e)
         ELSE timeout_check(m)

\* the clock has been latched: recorded as <<"tick.check", tick_period_ms,
\* the uptime (ms), tick_expiry>>
tick_check(m) == Call(m, "tick.check", m.tick_period_ms, get_uptime_ms(m), m.tick_expiry)

\* a variant that looks at the touch screen before the button
tick_awake_touch_first(m, d, e) ==
    tick_timeout(
        tick_button(tick_touch(tick_deliver(tick_check(rtc_update(m, d)), d > 0), e), e),
        e)

tick_awake(m, d, e) ==
    tick_timeout(
        tick_touch(tick_button(tick_deliver(tick_check(rtc_update(m, d)), d > 0), e), e),
        e)

\* a variant that wakes on a release as well
tick_wake_any_edge(m, state, e) ==
    IF state # None \/ m.charging # e.bat THEN wake(m, e) ELSE m

\* if 1 == self._button.get_event() or self.charging != charging: self.wake()
tick_wake(m, state, e) ==
    IF state = 1 \/ m.charging # e.bat THEN wake(m, e) ELSE m

tick_asleep(m, d, e) ==
    tick_wake(get_event(battery_charging(rtc_update(m, d), e), e.pin),
              get_event_value(m, e.pin), e)

\* d: the time (ms) that passed since the clock was last latched
\* recorded as <<"_tick", app, 1 if the step begins awake else 0, the uptime (s)
\* latched before the step>>
_tick(m, d, e) ==
    IF Truthy(m.sleep_at)
    THEN tick_awake(Call(m, "_tick", m.app, 1, uptime(m)), d, e)
    ELSE tick_asleep(Call(m, "_tick", m.app, 0, uptime(m)), d, e)

\* Manager.run() up to its loop
run(m, e) == IF m.app = NoApp THEN switch(m, At(m.applications, 0), e) ELSE m

\* Manager.register()
register(m, a) == [m EXCEPT !.applications = Append(@, a)]

------------------------------------------------------------------------------
(* Initial state: Manager() has been constructed *)

Init ==
    /\ app = NoApp
    /\ applications = <<ClockApp, FlashlightApp, TestApp>>
    /\ brightness = InitialBrightness
    /\ charging = TRUE
    /\ button_value = FALSE
    /\ sleep_at = Unset
    /\ event_mask = Unset
    /\ tick_period_ms = Unset
    /\ tick_expiry = Unset
    /\ rtc_ms = 0
    /\ display_on = FALSE
    /\ backlight = 0
    /\ status = "ok"
    /\ pc = "run"
    /\ log = <<>>
    /\ sub_mask = 0
    /\ sub_tick = None
    /\ boots = 0
    /\ boot_at = None
    /\ last_input = None
    /\ last_reset = None
    /\ nav_start = NoApp
    /\ nav_seq = <<>>

------------------------------------------------------------------------------
(* Actions *)

Called(r, name) == \E i \in 1..Len(r.log) : r.log[i][1] = name

\* the clock advances by one of these amounts (ms) between two polls
Deltas == {0, 15000, 16000}
TouchKinds == {EventType_DOWN, EventType_UP, EventType_LEFT, EventType_RIGHT, EventType_TOUCH}
Directions == {EventType_DOWN, EventType_UP, EventType_LEFT, EventType_RIGHT, EventType_HOME}
\* the applications register() is called with: one already in the ring, a new one
RegisterChoices == {FlashlightApp, NumApps}
BrightnessLevels == {2, 3}

NavReset == nav_start' = NoApp /\ nav_seq' = <<>>

\* an answer is enumerated only when the operation asks for it: op(e0) with
\* default answers shows whether the call that consults it is made
Asked(op(_), e0, name, all, default) ==
    IF Called(op(e0), name) THEN all ELSE {default}

Perform(op(_)) ==
    \E pin \in Asked(op, Env(FALSE, FALSE, None, Fg0, FALSE, FALSE, FALSE),
                     "button.get_event", BOOLEAN, FALSE) :
    \E pr \in Asked(op, Env(pin, FALSE, None, Fg0, FALSE, FALSE, FALSE),
                    "app.press", BOOLEAN, FALSE) :
    \E sr \in Asked(op, Env(pin, FALSE, None, Fg0, pr, FALSE, FALSE),
                    "app.sleep", BOOLEAN, FALSE) :
    \E bat \in Asked(op, Env(pin, FALSE, None, Fg0, pr, FALSE, sr),
                     "battery.charging", BOOLEAN, FALSE) :
    \E touch \in Asked(op, Env(pin, bat, None, Fg0, pr, FALSE, sr),
                       "touch.get_event", TouchKinds \cup {None}, None) :
    \E fg \in (Asked(op, Env(pin, bat, touch, Fg0, pr, FALSE, sr),
                     "app.foreground", FgChoices, Fg0)
               \cup Asked(op, Env(pin, bat, touch, Fg0, pr, TRUE, sr),
                          "app.foreground", FgChoices, Fg0)) :
    \E sw \in Asked(op, Env(pin, bat, touch, fg, pr, FALSE, sr),
                    "app.swipe", BOOLEAN, FALSE) :
        Commit(op(Env(pin, bat, touch, fg, pr, sw, sr)))

\* Manager.run() up to its loop: the first switch
Run ==
    /\ status = "ok"
    /\ pc = "run"
    /\ app = NoApp
    /\ LET op(e) == run(M, e) IN Perform(op)
    /\ pc' = "_tick"
    /\ NavReset

\* the loop of Manager.run(): self._tick()
Tick ==
    /\ status = "ok"
    /\ pc = "_tick"
    /\ \E d \in Deltas :
          /\ rtc_ms + d <= MaxUptime * 1000
          /\ LET op(e) == _tick(M, d, e) IN Perform(op)
    /\ pc' = "deepsleep"
    /\ NavReset

\* the loop of Manager.run(): machine.deepsleep(); the trace of the poll step
\* is forgotten
DeepSleep ==
    /\ status = "ok"
    /\ pc = "deepsleep"
    /\ pc' = "_tick"
    /\ log' = <<>>
    /\ UNCHANGED <<app, applications, brightness, charging, button_value, sleep_at,
                   event_mask, tick_period_ms, tick_expiry, rtc_ms, display_on,
                   backlight, status, sub_mask, sub_tick, boots, boot_at,
                   last_input, last_reset, nav_start, nav_seq>>

------------------------------------------------------------------------------
(* The Manager's operations called directly, before Manager.run() *)

\* the runs of navigate() calls that are followed: LEFT up to len(applications)
\* times, and LEFT then RIGHT
Tracked(s) ==
    \/ Len(s) <= Len(applications) /\ \A i \in 1..Len(s) : s[i] = EventType_LEFT
    \/ s = <<EventType_LEFT, EventType_RIGHT>>

NavTrack(direction) ==
    IF nav_seq # <<>> /\ Tracked(Append(nav_seq, direction))
    THEN nav_seq' = Append(nav_seq, direction) /\ nav_start' = nav_start
    ELSE nav_seq' = <<direction>> /\ nav_start' = app

\* system.register(app)
Register ==
    /\ status = "ok"
    /\ pc = "run"
    /\ log = <<>>
    /\ Len(applications) < MaxRing
    /\ \E a \in RegisterChoices : Commit(register(M, a))
    /\ NavReset
    /\ UNCHANGED pc

\* system.switch(app)
Switch ==
    /\ status = "ok"
    /\ pc = "run"
    /\ log = <<>>
    /\ \E a \in Apps : LET op(e) == switch(M, a, e) IN Perform(op)
    /\ NavReset
    /\ UNCHANGED pc

\* system.navigate(direction)
Navigate ==
    /\ status = "ok"
    /\ pc = "run"
    /\ log = <<>>
    /\ \E direction \in Directions :
          /\ LET op(e) == navigate(M, direction, e) IN Perform(op)
          /\ NavTrack(direction)
    /\ UNCHANGED pc

\* system.brightness = value
SetBrightness ==
    /\ status = "ok"
    /\ pc = "run"
    /\ log = <<>>
    /\ \E value \in BrightnessLevels : Commit(set_brightness(M, value))
    /\ NavReset
    /\ UNCHANGED pc

\* the operation has returned to its caller; its trace is forgotten
Return ==
    /\ status = "ok"
    /\ pc = "run"
    /\ log # <<>>
    /\ log' = <<>>
    /\ UNCHANGED <<app, applications, brightness, charging, button_value, sleep_at,
                   event_mask, tick_period_ms, tick_expiry, rtc_ms, display_on,
                   backlight, status, pc, sub_mask, sub_tick, boots, boot_at,
                   last_input, last_reset, nav_start, nav_seq>>

NextApi ==
    \/ Register
    \/ Switch
    \/ Navigate
    \/ SetBrightness
    \/ Return

SpecApi == Init /\ [][NextApi]_vars

------------------------------------------------------------------------------
(* The PinHandler on its own: a pin that changes, and polls of get_event() *)

\* PinHandler(pin) has been constructed: self._value = pin.value(), recorded
\* as <<"PinHandler", 0, None, what the pin read>>
InitPin ==
    /\ app = NoApp
    /\ applications = <<ClockApp, FlashlightApp, TestApp>>
    /\ brightness = InitialBrightness
    /\ charging = TRUE
    /\ button_value \in BOOLEAN
    /\ sleep_at = Unset
    /\ event_mask = Unset
    /\ tick_period_ms = Unset
    /\ tick_expiry = Unset
    /\ rtc_ms = 0
    /\ display_on = FALSE
    /\ backlight = 0
    /\ status = "ok"
    /\ pc = "run"
    /\ log = << <<"PinHandler", 0, None, B(button_value)>> >>
    /\ sub_mask = 0
    /\ sub_tick = None
    /\ boots = 0
    /\ boot_at = None
    /\ last_input = None
    /\ last_reset = None
    /\ nav_start = NoApp
    /\ nav_seq = <<>>

\* the level of the pin: as last changed, or as last read
PinLevel ==
    IF log[Len(log)][1] = "pin.change" THEN log[Len(log)][3] = 1 ELSE log[Len(log)][4] = 1

\* the pin changes its level, recorded as <<"pin.change", 0, the new level, 0>>
PinChange ==
    /\ Len(log) <= MaxPinTrace
    /\ log' = Append(log, <<"pin.change", 0, B(~PinLevel), 0>>)
    /\ UNCHANGED <<app, applications, brightness, charging, button_value, sleep_at,
                   event_mask, tick_period_ms, tick_expiry, rtc_ms, display_on,
                   backlight, status, pc, sub_mask, sub_tick, boots, boot_at,
                   last_input, last_reset, nav_start, nav_seq>>

\* the calls made so far, and then those of r
Continued(r) == [r EXCEPT !.log = log \o @]

\* self._button.get_event()
PinPoll ==
    /\ Len(log) <= MaxPinTrace
    /\ Commit(Continued(get_event(M, PinLevel)))
    /\ UNCHANGED <<pc, nav_start, nav_seq>>

NextPin ==
    \/ PinChange
    \/ PinPoll

SpecPin == InitPin /\ [][NextPin]_vars

------------------------------------------------------------------------------
(* The run loop under a finely stepped clock *)

TickDeltas == {0, 500, 1000, 3000, 3500}

\* the answers to an operation while nobody touches the screen: the button,
\* the charger and the applications' hooks answer as they may
PerformUntouched(op(_)) ==
    \E pin \in Asked(op, Env(FALSE, FALSE, None, Fg0, FALSE, FALSE, FALSE),
                     "button.get_event", BOOLEAN, FALSE) :
    \E pr \in Asked(op, Env(pin, FALSE, None, Fg0, FALSE, FALSE, FALSE),
                    "app.press", BOOLEAN, FALSE) :
    \E sr \in Asked(op, Env(pin, FALSE, None, Fg0, pr, FALSE, FALSE),
                    "app.sleep", BOOLEAN, FALSE) :
    \E bat \in Asked(op, Env(pin, FALSE, None, Fg0, pr, FALSE, sr),
                     "battery.charging", BOOLEAN, FALSE) :
    \E fg \in Asked(op, Env(pin, bat, None, Fg0, pr, FALSE, sr),
                    "app.foreground", FgChoices, Fg0) :
        Commit(op(Env(pin, bat, None, fg, pr, FALSE, sr)))

\* the loop of Manager.run(): self._tick(), polled at sub-second and
\* multi-second distances
TickFine ==
    /\ status = "ok"
    /\ pc = "_tick"
    /\ \E d \in TickDeltas :
          /\ rtc_ms + d <= MaxTickUptime * 1000
          /\ LET op(e) == _tick(M, d, e) IN PerformUntouched(op)
    /\ pc' = "deepsleep"
    /\ NavReset

NextTick ==
    \/ Run
    \/ TickFine
    \/ DeepSleep

SpecTick == Init /\ [][NextTick]_vars

------------------------------------------------------------------------------
(* The run loop *)

Next ==
    \/ Run
    \/ Tick
    \/ DeepSleep

Spec == Init /\ [][Next]_vars

------------------------------------------------------------------------------
(* Properties *)

Entries == 1..Len(log)
Named(i, name) == log[i][1] = name
EndsWith(name) == log # <<>> /\ log[Len(log)][1] = name
\* a poll step has just ended and returned
StepReturned == pc = "deepsleep" /\ status = "ok"

\* C1: after the bootstrap, at the end of every poll step, sleep_at is None
\* exactly when the device is asleep (the display was last powered off by
\* sleep() and not powered on since), and otherwise it is a deadline: the power
\* state is exactly one of AWAKE and ASLEEP. The code breaks this: a poll step
\* that handles a button press at ring index 0 (HOME, sleep()) and then a
\* pending touch event (keep_awake()) ends with the display off and sleep_at set.
C1_SleepAtNoneIffAsleep ==
    StepReturned =>
        /\ sleep_at = None \/ sleep_at > 0
        /\ (sleep_at = None) <=> ~display_on

\* C2: every switch(target) tells the previously foregrounded app background()
\* (exactly when there is one and it has that hook) before target.foreground(),
\* calls target.foreground() exactly once, between display.mute(True) followed
\* by drawable.reset() and display.mute(False), and returns with target as the
\* current app.
C2_SwitchProtocol ==
    /\ \A i \in Entries : Named(i, "switch") =>
          \E k \in (i + 3)..Len(log), j \in (i + 5)..Len(log) :
             /\ k < j - 1
             /\ log[j] = <<"switch.return", log[i][2], log[i][2], 0>>
             /\ log[k] = <<"app.foreground", log[i][2], log[k][3], log[k][4]>>
             /\ \A n \in (i + 1)..(j - 1) :
                   n # k => log[n][1] \notin {"app.foreground", "switch", "switch.return"}
             /\ log[k - 2] = <<"display.mute", 0, 1, 0>>
             /\ log[k - 1] = <<"drawable.reset", 0, 0, 0>>
             /\ log[j - 1] = <<"display.mute", 0, 0, 0>>
             /\ \A n \in (k + 1)..(j - 2) : log[n][1] \in {"request_event", "request_tick"}
             /\ (log[i][3] # NoApp /\ HasBackground(log[i][3]))
                   <=> (\E b \in (i + 1)..(k - 3) : log[b] = <<"app.background", log[i][3], 0, 0>>)
             /\ \A b \in (i + 1)..(j - 1) :
                   Named(b, "app.background") => b < k - 2 /\ log[b][2] = log[i][3]
    /\ EndsWith("switch.return") => app = log[Len(log)][2]

\* a switch away from an app with a background hook has returned
C2_Witness ==
    /\ status = "ok"
    /\ \E i \in Entries :
          /\ Named(i, "switch")
          /\ log[i][3] = FlashlightApp
          /\ log[i][2] = TestApp
          /\ app = TestApp
          /\ \E b \in Entries : b > i /\ log[b] = <<"app.background", FlashlightApp, 0, 0>>

\* C3: with an app foregrounded, event_mask is exactly the OR of the masks that
\* app passed to request_event since its foreground() began, and the tick
\* subscription is the one it set last (none if it set none): nothing of a
\* previous app survives a switch.
C3_SubscriptionsOfCurrentApp ==
    app # NoApp =>
        /\ event_mask = sub_mask
        /\ tick_period_ms = (IF sub_tick = None THEN 0 ELSE sub_tick)
        /\ (tick_expiry = None) <=> (sub_tick = None)
        /\ \A k \in Entries : Named(k, "app.foreground") => log[k][3] = 0

\* an app that subscribed to touch and vertical swipes was replaced by one that
\* subscribes to horizontal swipes, the button and a tick
C3_Witness ==
    /\ status = "ok"
    /\ app # NoApp
    /\ event_mask = EventMask_SWIPE_LEFTRIGHT + EventMask_BUTTON
    /\ tick_period_ms = 1000
    /\ tick_expiry # None
    /\ \E i \in Entries : Named(i, "switch") /\ log[i][4] = EventMask_TOUCH + EventMask_SWIPE_UPDOWN

\* the OR of the masks of the request_event calls recorded at from..to
RECURSIVE RequestedMask(_, _)
RequestedMask(from, to) ==
    IF from > to THEN 0
    ELSE IF Named(to, "request_event")
         THEN BitOr(RequestedMask(from, to - 1), log[to][3])
         ELSE RequestedMask(from, to - 1)

LastForeground == CHOOSE k \in Entries :
    Named(k, "app.foreground") /\ \A n \in (k + 1)..Len(log) : ~Named(n, "app.foreground")

\* C4 as stated: once a switch has returned, event_mask is 0 and no tick
\* subscription is armed. The target's foreground() runs inside switch and may
\* subscribe, so this fails.
C4_MaskZeroAfterSwitch ==
    EndsWith("switch.return") => event_mask = 0 /\ tick_expiry = None

\* C4 amended: whatever the previous app left, target.foreground() is called
\* with event_mask = 0 and no tick subscription armed, and when switch returns
\* they hold what the target requested in its foreground() and nothing else.
C4_CleanSlateAtForeground ==
    /\ \A k \in Entries :
          Named(k, "app.foreground") => log[k][3] = 0 /\ log[k][4] = None
    /\ EndsWith("switch.return") =>
          /\ event_mask = RequestedMask(LastForeground + 1, Len(log))
          /\ (tick_expiry = None)
                <=> (\A n \in (LastForeground + 1)..Len(log) : ~Named(n, "request_tick"))
          /\ tick_expiry = None => tick_period_ms = 0

\* a switch away from an app subscribed to horizontal swipes, the button and a
\* tick to one that subscribes to touch and vertical swipes has returned
C4_Witness ==
    /\ status = "ok"
    /\ EndsWith("switch.return")
    /\ event_mask = EventMask_TOUCH + EventMask_SWIPE_UPDOWN
    /\ tick_expiry = None
    /\ \E i \in Entries :
          /\ Named(i, "switch")
          /\ log[i][4] = EventMask_SWIPE_LEFTRIGHT + EventMask_BUTTON
          /\ \A n \in (i + 1)..Len(log) : ~Named(n, "switch")

------------------------------------------------------------------------------
(* Properties of navigate(), called directly *)

NoDuplicates(app_list) ==
    \A i, j \in 1..Len(app_list) : app_list[i] = app_list[j] => i = j

AllLeft(s) == \A i \in 1..Len(s) : s[i] = EventType_LEFT

\* navigate(LEFT) has been called len(applications) times in a row
FullCircle == status = "ok" /\ nav_seq # <<>> /\ AllLeft(nav_seq) /\ Len(nav_seq) = Len(applications)

\* C5 as stated: after any register calls and from any starting app (a ring
\* member, the launcher or none), navigate(LEFT) called len(applications)
\* times ends at the starting app. From the launcher or from no app the walk
\* enters the ring and ends at its last member, and an app registered twice
\* shortens the cycle, so this fails.
C5_RingClosureFromAnyApp == FullCircle => app = nav_start

\* C5 amended: when no application is registered twice and the starting app is
\* a ring member, navigate(LEFT) called len(applications) times ends at the
\* starting app.
C5_RingClosure ==
    (FullCircle /\ NoDuplicates(applications) /\ InList(nav_start, applications))
        => app = nav_start

\* after one more register call, four calls of navigate(LEFT) from the last
\* member of a ring of four distinct apps came back to it
C5_Witness ==
    /\ FullCircle
    /\ Len(applications) = MaxRing
    /\ NoDuplicates(applications)
    /\ nav_start = applications[Len(applications)]
    /\ app = nav_start

\* navigate(LEFT) and then navigate(RIGHT) have been called
ThereAndBack == status = "ok" /\ nav_seq = <<EventType_LEFT, EventType_RIGHT>>

\* C6 as stated: from any starting app, navigate(LEFT) then navigate(RIGHT)
\* ends at the starting app. From the launcher or from no app it ends in the
\* ring, and with an app registered twice RIGHT need not undo LEFT, so this
\* fails.
C6_RoundTripFromAnyApp == ThereAndBack => app = nav_start

\* C6 amended: when no application is registered twice and the starting app is
\* a ring member, navigate(LEFT) then navigate(RIGHT) ends at the starting app.
C6_RoundTrip ==
    (ThereAndBack /\ NoDuplicates(applications) /\ InList(nav_start, applications))
        => app = nav_start

\* from the last ring member LEFT wrapped to index 0 and RIGHT wrapped back
C6_Witness ==
    /\ ThereAndBack
    /\ NoDuplicates(applications)
    /\ nav_start = applications[Len(applications)]
    /\ app = nav_start
    /\ \E i \in Entries : Named(i, "switch") /\ log[i][3] = applications[1]

\* a single navigate(direction) call is recorded, made with app p foregrounded
Navigated(direction, p) == log # <<>> /\ log[1] = <<"navigate", p, direction, 0>>

\* the ring member `steps` places after the first occurrence of p
RingNeighbour(p, steps) ==
    LET n == Len(applications)
        i == CHOOSE k \in 1..n : applications[k] = p /\ \A j \in 1..(k - 1) : applications[j] # p
    IN  applications[((i - 1 + n + steps) % n) + 1]

\* where navigate(LEFT) (steps = 1) and navigate(RIGHT) (steps = -1) lead from p
RingTarget(p, steps) ==
    IF \E k \in 1..Len(applications) : applications[k] = p
    THEN RingNeighbour(p, steps)
    ELSE applications[1]

C7_Direction(direction, steps) ==
    \A p \in {NoApp} \cup Apps : Navigated(direction, p) =>
        /\ Len(log) > 1
        /\ Named(2, "switch")
        /\ log[2][2] = RingTarget(p, steps)
        /\ app = RingTarget(p, steps)
        /\ IF p = NoApp
           THEN /\ log[3] = <<"display.poweron", 0, 0, 0>>
                /\ \E b \in Entries : log[b] = <<"backlight.set", 0, brightness, 0>>
                /\ display_on
                /\ backlight = brightness
                /\ sleep_at = (rtc_ms \div 1000) + 90
           ELSE \A b \in Entries : log[b][1] \notin {"display.poweron", "backlight.set"}

\* C7: navigate(LEFT) switches to ring index (i+1) mod len and navigate(RIGHT)
\* to (i-1) mod len, i being the ring index of the current app, and both to
\* index 0 when the current app is not in the ring; the switch made with no
\* current app powers the display on, sets the backlight to the cached
\* brightness and sets sleep_at = uptime + 90, and no later switch does.
C7_NavigateLeftRight ==
    /\ C7_Direction(EventType_LEFT, 1)
    /\ C7_Direction(EventType_RIGHT, -1)
    /\ boots = (IF app = NoApp THEN 0 ELSE 1)
    /\ \A b \in Entries :
          Named(b, "display.poweron") => b > 1 /\ Named(b - 1, "switch") /\ log[b - 1][3] = NoApp

\* navigate(RIGHT) with no app yet, after the brightness was raised: the
\* bootstrap switch to ring index 0
C7_Witness ==
    /\ status = "ok"
    /\ Navigated(EventType_RIGHT, NoApp)
    /\ app = applications[1]
    /\ boots = 1
    /\ brightness = 3
    /\ backlight = 3
    /\ display_on
    /\ sleep_at = 90

NoCall(names) == \A b \in Entries : log[b][1] \notin names

\* what a recorded navigate(HOME), navigate(DOWN) or navigate(UP) call has done
C8_AfterNavigate ==
    \A p \in {NoApp} \cup Apps :
        /\ (Navigated(EventType_HOME, p) /\ p = applications[1]) =>
              /\ Len(log) > 1
              /\ log[2] = <<"sleep", p, 0, 0>>
              /\ \E b \in Entries : log[b] = <<"app.sleep", p, 1, 0>>
              /\ NoCall({"switch", "app.background", "app.foreground"})
              /\ app = p
              /\ sleep_at = None
              /\ ~display_on
        /\ \A direction \in {EventType_HOME, EventType_DOWN} :
              (Navigated(direction, p) /\ p # applications[1]) =>
                 /\ Len(log) > 1
                 /\ log[2] = <<"switch", applications[1], p, log[2][4]>>
                 /\ app = applications[1]
                 /\ NoCall({"sleep", "app.sleep", "display.poweroff"})
        /\ (Navigated(EventType_DOWN, p) /\ p = applications[1]) =>
              log = << <<"navigate", p, EventType_DOWN, 0>>, <<"vibrator.pulse", 0, 0, 0>> >>
        /\ Navigated(EventType_UP, p) =>
              /\ Len(log) > 1
              /\ log[2] = <<"switch", LauncherApp, p, log[2][4]>>
              /\ app = LauncherApp
              /\ NoCall({"sleep", "app.sleep", "display.poweroff"})

\* navigate(DOWN) at ring index 0 leaves the Manager as it was
C8_DownAtHome ==
    (log = <<>> /\ log' # <<>> /\ log'[1] = <<"navigate", applications[1], EventType_DOWN, 0>>)
        => UNCHANGED <<app, applications, brightness, charging, sleep_at, event_mask,
                       tick_period_ms, tick_expiry, button_value, display_on, backlight>>

\* C8: navigate(HOME) with the ring-index-0 app foregrounded calls sleep() and
\* makes no switch (no background() or foreground() call, same current app);
\* navigate(HOME) and navigate(DOWN) from any other app switch to ring index 0
\* and do not sleep; navigate(DOWN) at ring index 0 only pulses the vibrator
\* and changes no Manager state; navigate(UP) switches to the launcher.
C8_HomeDownUp == [](C8_AfterNavigate) /\ [][C8_DownAtHome]_vars

\* navigate(HOME) with the clock, ring index 0, foregrounded: the device sleeps
C8_Witness ==
    /\ status = "ok"
    /\ Navigated(EventType_HOME, applications[1])
    /\ app = applications[1]
    /\ sleep_at = None
    /\ ~display_on
    /\ backlight = 0

------------------------------------------------------------------------------
(* Properties of the awake/asleep cycle *)

Uptime == rtc_ms \div 1000
\* a poll step is recorded that began awake (1) or asleep (0)
StepBegan(awake) == log # <<>> /\ log[1][1] = "_tick" /\ log[1][3] = awake
\* the uptime at which the last button or touch input was processed, the
\* bootstrap counting as the start
LastInput == IF last_input = None THEN boot_at ELSE last_input

\* C9 as stated: a poll step that begins AWAKE when no button or touch input
\* has been processed for more than blank_after seconds of uptime (and handles
\* none itself) ends ASLEEP: backlight.set(0) called, display off, sleep_at
\* None. The bootstrap switch arms the timer with 90 s, and wake() re-arms it
\* without any input, so this fails.
C9_SleepsAfterBlankAfter ==
    (/\ StepReturned
     /\ StepBegan(1)
     /\ NoCall({"_handle_button", "_handle_touch"})
     /\ log[1][4] - LastInput > blank_after)
        => /\ sleep_at = None
           /\ ~display_on
           /\ \E b \in Entries : log[b] = <<"backlight.set", 0, 0, 0>>

\* the deadline the Manager keeps while awake
Deadline ==
    IF last_reset = None THEN boot_at + 90 ELSE last_reset + blank_after

\* C9 amended: while AWAKE, sleep_at is the uptime of the most recent processed
\* button or touch input or wake() plus blank_after, or the uptime of the
\* bootstrap switch plus 90 when there has been none; a poll step whose
\* inactivity check finds uptime > sleep_at goes ASLEEP in that step
\* (backlight.set(0) called, then the display powered off, sleep_at None), and
\* one that does not find it leaves sleep_at alone.
C9_InactivityTimeout ==
    /\ (app # NoApp /\ sleep_at # None) => sleep_at = Deadline
    /\ \A i \in Entries : Named(i, "timeout.check") =>
          IF log[i][4] # None /\ log[i][4] # 0 /\ log[i][3] > log[i][4]
          THEN /\ i + 1 <= Len(log)
               /\ log[i + 1][1] = "sleep"
               /\ \E b \in (i + 2)..Len(log), c \in (i + 3)..Len(log) :
                     /\ b < c
                     /\ log[b] = <<"backlight.set", 0, 0, 0>>
                     /\ log[c] = <<"display.poweroff", 0, 0, 0>>
               /\ sleep_at = None
               /\ ~display_on
               /\ backlight = 0
          ELSE /\ i = Len(log)
               /\ sleep_at = log[i][4]

\* a poll step without input, 16 s after the last input, put the device to sleep
C9_Witness ==
    /\ StepReturned
    /\ StepBegan(1)
    /\ NoCall({"_handle_button", "_handle_touch"})
    /\ last_input # None
    /\ Uptime = last_input + blank_after + 1
    /\ \E i \in Entries : Named(i, "timeout.check") /\ log[i][3] > log[i][4] /\ log[i][4] > 0
    /\ sleep_at = None
    /\ ~display_on

\* the poll step recorded found the button pressed down, or a charging reading
\* that differs from the cached one
WakeStimulus ==
    \/ \E i \in Entries : Named(i, "button.get_event") /\ log[i][3] = 1
    \/ \E i \in Entries : Named(i, "battery.charging") /\ log[i][3] # B(charging)

\* C10: a poll step that begins ASLEEP and observes a button press-down or a
\* charging reading different from the cached one ends AWAKE: the display is
\* powered on, the backlight is back at the cached brightness, one pending touch
\* event has been read and not dispatched, and sleep_at = uptime + blank_after.
\* The code breaks this: wake() calls the current app's wake() without asking
\* whether it has one.
C10_WakesOnPressOrCharger ==
    (pc = "deepsleep" /\ StepBegan(0) /\ WakeStimulus)
        => /\ status = "ok"
           /\ display_on
           /\ backlight = brightness
           /\ \E i \in Entries : Named(i, "touch.get_event")
           /\ NoCall({"_handle_touch", "app.touch", "app.swipe"})
           /\ sleep_at = Uptime + blank_after

------------------------------------------------------------------------------
(* Properties of tick delivery *)

\* the number of periods P that have elapsed at now since expiry E
ElapsedPeriods(P, now, E) == ((now - E) \div P) + 1

TicksDelivered == {b \in Entries : Named(b, "app.tick")}

\* what C11 says of the poll step whose tick check is recorded at i
TickCatchUpAt(i) ==
    /\ (log[i][2] > 0 /\ log[i][4] # None /\ log[i][4] <= log[i][3]) =>
          /\ i < Len(log)
          /\ log[i + 1] = <<"app.tick", log[1][2],
                            ElapsedPeriods(log[i][2], log[i][3], log[i][4]),
                            log[i][4] + ElapsedPeriods(log[i][2], log[i][3], log[i][4]) * log[i][2]>>
          /\ log[i + 1][4] > log[i][3]
          /\ log[i + 1][4] - log[i][2] <= log[i][3]
          /\ TicksDelivered = {i + 1}
          /\ NoCall({"switch"}) => tick_expiry = log[i + 1][4]
    /\ (log[i][4] = None \/ (log[i][2] > 0 /\ log[i][4] > log[i][3])) =>
          /\ TicksDelivered = {}
          /\ NoCall({"switch"}) => tick_expiry = log[i][4]

\* C11: in an AWAKE poll step that finds a tick subscription with period P > 0
\* whose expiry E has elapsed (E <= now), the current app gets exactly one
\* tick(n) with n = floor((now - E) / P) + 1 and tick_expiry becomes E + n*P,
\* which is later than now; when E > now, or nothing is subscribed, no tick is
\* delivered and tick_expiry stays as it is. The code breaks this: it looks at
\* the subscription only when rtc.update() says that the time advanced, and
\* the time that passed in an ASLEEP poll step was latched there.
C11_TickCatchUp ==
    \A i \in Entries : Named(i, "tick.check") => TickCatchUpAt(i)

\* the same, of the poll steps in which rtc.update() returned true: this much
\* the code does
TickCatchUpWhenAdvanced ==
    \A i \in Entries :
        (Named(i, "tick.check") /\ log[i - 1] = <<"rtc.update", 0, 1, 0>>) => TickCatchUpAt(i)

\* with a period of 1000 ms and three periods elapsed the app got one tick(3)
\* and the expiry advanced by 3000 ms
TickOfThree ==
    /\ StepReturned
    /\ \E i \in Entries :
          /\ Named(i, "tick.check")
          /\ log[i][2] = 1000
          /\ i < Len(log)
          /\ log[i + 1] = <<"app.tick", app, 3, log[i][4] + 3000>>
          /\ tick_expiry = log[i][4] + 3000
          /\ log[i][3] > log[i][4] + 2000

------------------------------------------------------------------------------
(* Properties of the optional capabilities *)

\* C12: a capability that the application lacks is never an error: no poll
\* step ends in a failure raised by calling a hook that is not there. The code
\* breaks this: wake() calls self.app.wake() without asking whether the
\* foregrounded app has one.
C12_AbsentCapabilityIsNoError == status # "raised"

------------------------------------------------------------------------------
(* Properties of one poll step *)

\* where the poll step recorded polled the button and the touch screen and
\* made its inactivity check
IndexOfCall(name) == CHOOSE i \in Entries : Named(i, name)

IsButtonWork(i) ==
    \/ log[i][1] \in {"_handle_button", "app.press"}
    \/ Named(i, "navigate") /\ log[i][3] = EventType_HOME

IsTouchWork(i) ==
    \/ log[i][1] \in {"_handle_touch", "app.swipe", "app.touch"}
    \/ Named(i, "navigate") /\ log[i][3] # EventType_HOME

\* C13: in an AWAKE poll step the app's tick() comes before all button
\* processing (keep_awake, press, navigate(HOME)), that before all touch
\* processing (keep_awake, swipe, touch, navigate), and the inactivity check
\* is made after all three.
C13_StepOrder ==
    (StepBegan(1) /\ status = "ok") =>
        /\ \A name \in {"button.get_event", "touch.get_event", "timeout.check"} :
              Cardinality({i \in Entries : Named(i, name)}) = 1
        /\ IndexOfCall("button.get_event") < IndexOfCall("touch.get_event")
        /\ IndexOfCall("touch.get_event") < IndexOfCall("timeout.check")
        /\ \A i \in Entries :
              /\ Named(i, "app.tick") => i < IndexOfCall("button.get_event")
              /\ IsButtonWork(i) =>
                    IndexOfCall("button.get_event") < i /\ i < IndexOfCall("touch.get_event")
              /\ IsTouchWork(i) =>
                    IndexOfCall("touch.get_event") < i /\ i < IndexOfCall("timeout.check")
              /\ Named(i, "keep_awake") =>
                    /\ log[i - 1][1] \in {"_handle_button", "_handle_touch"}
                    /\ i < IndexOfCall("timeout.check")

\* a poll step in which a tick was due, the button was pressed and a swipe was
\* pending: tick(), press(), navigate(HOME), swipe(), in this order
C13_Witness ==
    /\ StepReturned
    /\ StepBegan(1)
    /\ \E i, j, k, l \in Entries :
          /\ i < j /\ j < k /\ k < l
          /\ Named(i, "app.tick")
          /\ Named(j, "app.press")
          /\ Named(k, "navigate") /\ log[k][3] = EventType_HOME
          /\ Named(l, "app.swipe")

------------------------------------------------------------------------------
(* Properties of wake() *)

Wakes == {i \in Entries : Named(i, "wake")}

\* wake() is called only in a poll step that begins ASLEEP, once, with the
\* display powered off by the sleep() before it and sleep_at None, and only
\* for a press-down transition of the button or a changed charging reading;
\* a button that is held reads as no transition
WakeOnlyFromAsleep ==
    \A i \in Wakes :
        /\ StepBegan(0)
        /\ Wakes = {i}
        /\ log[i][3] = 0
        /\ log[i][4] = None
        /\ WakeStimulus
        /\ \A b \in Entries :
              (Named(b, "button.get_event") /\ log[b][3] = 1) => button_value /\ log[b][4] = 1

\* C14: no double wake. wake() is invoked only from a poll step that begins
\* ASLEEP and it leaves the device AWAKE (display on, sleep_at set), so there
\* is a sleep() between any two wake() calls and none while the device is
\* awake; a held button wakes at most once. The code breaks the middle part:
\* a wake() of an app without a wake() hook fails after display.poweron() and
\* leaves sleep_at None.
C14_NoDoubleWake ==
    /\ WakeOnlyFromAsleep
    /\ Wakes # {} =>
          /\ status = "ok"
          /\ display_on
          /\ sleep_at = Uptime + blank_after

\* a press-down woke the device and the button is still held
WokenByButton ==
    /\ StepReturned
    /\ Wakes # {}
    /\ button_value
    /\ \E b \in Entries : Named(b, "button.get_event") /\ log[b][3] = 1
    /\ sleep_at = Uptime + blank_after

\* an action-level reading of "a held button wakes at most once": a poll
\* step that begins with the button held wakes only for the charger
HeldButtonWakesOnce ==
    [][(button_value /\ pc = "_tick" /\ pc' = "deepsleep"
        /\ \E i \in 1..Len(log') : log'[i][1] = "wake")
       => \E b \in 1..Len(log') : log'[b][1] = "battery.charging" /\ log'[b][3] # B(charging)]_vars

------------------------------------------------------------------------------
(* Properties of button and touch processing *)

Subscribed(mask, bit) == (mask \div bit) % 2 = 1

\* the button transition handled at i is done with at j: the touch screen is
\* polled next
ButtonDoneAt(j) == j <= Len(log) /\ Named(j, "touch.get_event")

\* the touch event handled at i is done with at j: the inactivity check is next
TouchDoneAt(j) == j <= Len(log) /\ Named(j, "timeout.check")

\* C15: every button transition handled while AWAKE first sets sleep_at =
\* uptime + blank_after. With the BUTTON bit in event_mask the app gets
\* press(HOME, state), and when that returns false nothing more is done for the
\* event. Without the bit, or when press returns true, a press-down leads to
\* navigate(HOME) and a release to nothing.
C15_ButtonProcessing ==
    \A i \in Entries : Named(i, "_handle_button") =>
        /\ StepBegan(1)
        /\ i + 2 <= Len(log)
        /\ log[i + 1] = <<"keep_awake", log[i][2], Uptime + blank_after, 0>>
        /\ IF Subscribed(log[i][4], EventMask_BUTTON)
           THEN /\ i + 3 <= Len(log)
                /\ log[i + 2] = <<"app.press", log[i][2], log[i][3], log[i + 2][4]>>
                /\ IF log[i + 2][4] = 0
                   THEN ButtonDoneAt(i + 3)
                   ELSE IF log[i][3] = 1
                        THEN log[i + 3] = <<"navigate", log[i][2], EventType_HOME, 0>>
                        ELSE ButtonDoneAt(i + 3)
           ELSE /\ NoCall({"app.press"})
                /\ IF log[i][3] = 1
                   THEN log[i + 2] = <<"navigate", log[i][2], EventType_HOME, 0>>
                   ELSE ButtonDoneAt(i + 2)

\* the app took a press-down for itself: press() returned false and the step
\* went on to the touch screen, the app still foregrounded and awake
C15_Witness ==
    /\ StepReturned
    /\ \E i \in Entries :
          /\ Named(i, "_handle_button")
          /\ log[i][3] = 1
          /\ i + 3 <= Len(log)
          /\ log[i + 2] = <<"app.press", app, 1, 0>>
          /\ Named(i + 3, "touch.get_event")
    /\ NoCall({"navigate", "switch", "sleep"})
    /\ sleep_at = Uptime + blank_after

\* C16: a swipe (kind 1..4) handled while AWAKE goes to the app's swipe() when
\* the app subscribed to its category (SWIPE_UPDOWN for DOWN and UP,
\* SWIPE_LEFTRIGHT for LEFT and RIGHT), and navigate(kind) follows only when
\* swipe() returns true; without the subscription swipe() is not called and
\* navigate(kind) follows always. A touch (kind 5) goes to the app's touch()
\* only with the TOUCH bit set and never leads to navigation or a switch.
C16_TouchProcessing ==
    \A i \in Entries : Named(i, "_handle_touch") =>
        /\ StepBegan(1)
        /\ i + 2 <= Len(log)
        /\ Named(i + 1, "keep_awake")
        /\ log[i][3] \in 1..4 =>
              IF Subscribed(log[i][4], IF log[i][3] \in {EventType_DOWN, EventType_UP}
                                       THEN EventMask_SWIPE_UPDOWN
                                       ELSE EventMask_SWIPE_LEFTRIGHT)
              THEN /\ i + 3 <= Len(log)
                   /\ log[i + 2] = <<"app.swipe", log[i][2], log[i][3], log[i + 2][4]>>
                   /\ IF log[i + 2][4] = 1
                      THEN log[i + 3] = <<"navigate", log[i][2], log[i][3], 0>>
                      ELSE TouchDoneAt(i + 3)
              ELSE /\ NoCall({"app.swipe"})
                   /\ log[i + 2] = <<"navigate", log[i][2], log[i][3], 0>>
        /\ log[i][3] = EventType_TOUCH =>
              IF Subscribed(log[i][4], EventMask_TOUCH)
              THEN /\ log[i + 2] = <<"app.touch", log[i][2], EventType_TOUCH, 0>>
                   /\ TouchDoneAt(i + 3)
              ELSE /\ NoCall({"app.touch"})
                   /\ TouchDoneAt(i + 2)

\* the app vetoed a swipe: swipe() returned false and nothing was navigated
C16_Witness ==
    /\ StepReturned
    /\ \E i \in Entries :
          /\ Named(i, "_handle_touch")
          /\ log[i][3] = EventType_LEFT
          /\ i + 3 <= Len(log)
          /\ log[i + 2] = <<"app.swipe", app, EventType_LEFT, 0>>
          /\ Named(i + 3, "timeout.check")
    /\ NoCall({"navigate", "switch"})

------------------------------------------------------------------------------
(* Properties of sleep() *)

\* the end of sleep(): the display is powered off at j, the battery read next
SleepEndsAt(j) ==
    /\ j + 1 <= Len(log)
    /\ log[j] = <<"display.poweroff", 0, 0, 0>>
    /\ Named(j + 1, "battery.charging")
    /\ j + 1 = Len(log) =>
          /\ charging = (log[j + 1][3] = 1)
          /\ sleep_at = None
          /\ ~display_on
          /\ backlight = 0

\* sleep() called at i with app p foregrounded: p's sleep() returned true
SleepInPlace(i, p) ==
    /\ SleepEndsAt(i + 3)
    /\ (i + 4 = Len(log)) => app = p

\* sleep() called at i with app p foregrounded: the switch to the default
\* app at k, returning at j, then the default app's sleep()
SleepByDefaultApp(i, p, k, j) ==
    /\ k < j
    /\ j + 1 <= Len(log)
    /\ log[k] = <<"switch", applications[1], p, log[k][4]>>
    /\ log[j] = <<"switch.return", applications[1], applications[1], 0>>
    /\ \A n \in (k + 1)..(j - 1) : ~Named(n, "switch.return")
    /\ HasBackground(p) <=> (\E b \in (k + 1)..(j - 1) : log[b] = <<"app.background", p, 0, 0>>)
    /\ \E f \in (k + 1)..(j - 1) : Named(f, "app.foreground") /\ log[f][2] = applications[1]
    /\ log[j + 1] = <<"app.sleep", applications[1], log[j + 1][3], 0>>
    /\ SleepEndsAt(j + 2)
    /\ (j + 3 = Len(log)) => app = applications[1]

\* C17: sleep() of an app that has no sleep() hook, or whose sleep() returns
\* false, switches to the ring-index-0 app (background() of the old app,
\* foreground() of the default app) and calls that app's sleep() once; when the
\* current app's sleep() returns true there is no switch and the app stays. In
\* both cases sleep() returns with backlight.set(0) called, the display off,
\* charging equal to the battery reading it took, and sleep_at None.
C17_SleepFallback ==
    \A i \in Entries : Named(i, "sleep") =>
        /\ i + 2 <= Len(log)
        /\ log[i + 1] = <<"backlight.set", 0, 0, 0>>
        /\ IF log[i + 2] = <<"app.sleep", log[i][2], 1, 0>>
           THEN SleepInPlace(i, log[i][2])
           ELSE IF Named(i + 2, "app.sleep")
                THEN /\ log[i + 2] = <<"app.sleep", log[i][2], 0, 0>>
                     /\ \E j \in Entries : SleepByDefaultApp(i, log[i][2], i + 3, j)
                ELSE /\ ~HasSleep(log[i][2])
                     /\ \E j \in Entries : SleepByDefaultApp(i, log[i][2], i + 2, j)
        /\ Named(i + 2, "app.sleep") <=> HasSleep(log[i][2])

\* the test app refused to sleep: the clock was foregrounded and sleeps
C17_Witness ==
    /\ StepReturned
    /\ EndsWith("battery.charging")
    /\ app = applications[1]
    /\ sleep_at = None
    /\ ~display_on
    /\ \E i \in Entries :
          /\ Named(i, "sleep")
          /\ i + 3 <= Len(log)
          /\ log[i + 2] = <<"app.sleep", TestApp, 0, 0>>
          /\ Named(i + 3, "switch")
    /\ \E n \in Entries : log[n] = <<"app.sleep", applications[1], 1, 0>>

------------------------------------------------------------------------------
(* Properties of the PinHandler *)

\* the reads of the pin: by the constructor and by each get_event()
Reads == {i \in Entries : log[i][1] \in {"PinHandler", "button.get_event"}}
Polls == {i \in Entries : Named(i, "button.get_event")}
\* the read before the poll at i
ReadBefore(i) == CHOOSE r \in Reads : r < i /\ \A q \in Reads : q < i => q <= r
\* how often the pin changed between the read before the poll at i and that poll
ChangesBefore(i) == Cardinality({c \in (ReadBefore(i) + 1)..(i - 1) : Named(c, "pin.change")})
\* the polls that reported an event
Events == {i \in Polls : log[i][3] # None}

\* C18: get_event() returns the value it reads when that differs from the
\* value read at the previous poll (or by the constructor), and None
\* otherwise: each transition seen is reported once, successive events
\* alternate between True and False, and a pin that changed and changed back
\* between two polls gives no event.
C18_EdgeDetector ==
    (log # <<>> /\ Named(1, "PinHandler")) =>
        /\ \A i \in Polls :
              /\ log[i][3] = (IF log[i][4] # log[ReadBefore(i)][4] THEN log[i][4] ELSE None)
              /\ (ChangesBefore(i) % 2 = 1) <=> (log[i][3] # None)
              /\ ChangesBefore(i) = 2 => log[i][3] = None
        /\ \A i, j \in Events :
              (i < j /\ \A k \in Events : ~(i < k /\ k < j)) => log[i][3] # log[j][3]
        /\ \A i \in Events : log[i][3] \in {0, 1}
        /\ button_value = (log[CHOOSE r \in Reads : \A q \in Reads : q <= r][4] = 1)

\* a press was reported, the button was held over a poll, a release was
\* reported, and a press-and-release between two polls went unseen
C18_Witness ==
    /\ Len(log) = 8
    /\ log[1] = <<"PinHandler", 0, None, 0>>
    /\ log[3] = <<"button.get_event", 0, 1, 1>>
    /\ log[4] = <<"button.get_event", 0, None, 1>>
    /\ log[6] = <<"button.get_event", 0, 0, 0>>
    /\ Named(7, "pin.change")
    /\ Named(8, "pin.change")
    /\ ~button_value

------------------------------------------------------------------------------
(* Termination of the poll step *)

\* C19: every poll step terminates: whatever period was given to
\* request_tick, period 0 included, the catch-up loop of _tick ends with
\* tick_expiry > now. The code breaks this: with a period of 0 the loop adds 0
\* to an expiry that has elapsed, for ever.
C19_PollStepTerminates == status # "hung"

------------------------------------------------------------------------------
(* Properties of the poll step of a sleeping device *)

\* what a recorded poll step that began ASLEEP has called
C20_AsleepCalls ==
    StepBegan(0) =>
        /\ NoCall({"app.tick", "app.press", "app.swipe", "app.touch", "app.foreground",
                   "app.background", "navigate", "switch", "_handle_button",
                   "_handle_touch", "request_event", "request_tick", "sleep"})
        /\ ~WakeStimulus =>
              /\ NoCall({"wake", "display.poweron", "app.wake", "touch.get_event",
                         "backlight.set", "keep_awake"})
              /\ sleep_at = None
              /\ ~display_on
              /\ status = "ok"

\* a poll step that begins ASLEEP leaves the current app, the ring and the
\* subscriptions as they are
C20_AsleepFrame ==
    (pc = "_tick" /\ sleep_at = None /\ pc' = "deepsleep")
        => UNCHANGED <<app, applications, event_mask, tick_period_ms, tick_expiry,
                       sub_mask, sub_tick>>

\* C20: a poll step that begins ASLEEP calls no tick, press, swipe or touch of
\* any app, does not navigate or switch, and leaves event_mask and the tick
\* subscription unchanged; a button release or a pending touch event alone
\* does not wake the device, and the press-down that wakes it is neither given
\* to the app as press() nor turned into navigate(HOME).
C20_AsleepStepIsQuiet == [](C20_AsleepCalls) /\ [][C20_AsleepFrame]_vars

\* the button that sent the device to sleep was released while it slept: the
\* device sleeps on, its subscriptions kept
C20_Witness ==
    /\ StepReturned
    /\ StepBegan(0)
    /\ \E b \in Entries : log[b] = <<"button.get_event", 0, 0, 0>>
    /\ NoCall({"wake"})
    /\ sleep_at = None
    /\ ~display_on
    /\ event_mask # 0
    /\ tick_expiry # None

====
